---- MODULE Spec2Model ----
(***************************************************************************)
(* Model of the admin console front end (React): the session kept by App   *)
(* (localStorage 'user'/'token', the axios Authorization default, the      *)
(* in-memory user), the Dashboard's role gating, the create-organization   *)
(* and create-user forms, the user-management view, and the requests the   *)
(* handlers issue and the continuations that run when they settle.         *)
(***************************************************************************)
EXTENDS Integers, Sequences, FiniteSets, Bags, TLC

VARIABLES
  localStorage,  \* window.localStorage: a function from the keys present to strings
  axiosCommon,   \* axios.defaults.headers.common: a function from header names to strings
  app,           \* App: [user, loading]
  loginView,     \* Login: [error, loading]
  dash,          \* Dashboard: orgs, loading, error, the three modal flags, selectedOrgId
  orgModal,      \* CreateOrgModal: orgId, orgName, error, loading
  userModal,     \* CreateUserModal: username, password, role, error, loading
  mgmtModal,     \* UserManagementModal: users, loading, error, deleting
  inflight,      \* the bag of requests sent and not yet settled, each with its handler's closure
  issued,        \* the requests the last step sent, as observed on the wire
  lastStep,      \* what the last step was
  nextTok,       \* the number of the next token the backend issues
  cleared        \* the tokens a logout has cleared so far

vars == <<localStorage, axiosCommon, app, loginView, dash, orgModal, userModal,
          mgmtModal, inflight, issued, lastStep, nextTok, cleared>>

-----------------------------------------------------------------------------
(* Bounds *)

MaxLogins == 2     \* successful logins in one behaviour (each gets a fresh token)
MaxInflight == 2   \* requests pending at the same time
MaxLen == 2        \* length of a typed text in the form specifications
MaxMsgs == 2       \* validation messages in one 422 response

-----------------------------------------------------------------------------
(* JavaScript values *)

Undefined == "<undefined>"
JNull == [t |-> "null"]
JNumber == [t |-> "number"]
JThrow == [t |-> "throw"]
JObject(username, role) == [t |-> "object", username |-> username, role |-> role]

\* JS truthiness of a parsed value (null is falsy; 5 and objects are truthy)
Truthy(v) == v.t \in {"object", "number"}

\* user?.role
RoleOf(v) == IF v.t = "object" THEN v.role ELSE Undefined

Roles == {"admin", "editor", "viewer"}

\* the identities the backend knows: /token answers with one of them
Users == { JObject("alice", "admin"), JObject("ed", "editor"), JObject("vic", "viewer") }

\* JSON.stringify of a user object
JSONstringify(v) ==
  CASE v = JObject("alice", "admin") -> "{\"username\":\"alice\",\"role\":\"admin\"}"
    [] v = JObject("ed", "editor")   -> "{\"username\":\"ed\",\"role\":\"editor\"}"
    [] v = JObject("vic", "viewer")  -> "{\"username\":\"vic\",\"role\":\"viewer\"}"
    [] v = JNull                     -> "null"
    [] OTHER                         -> "5"

\* JSON.parse: the value, or JThrow for a SyntaxError
JSONparse(s) ==
  CASE s = "{\"username\":\"alice\",\"role\":\"admin\"}" -> JObject("alice", "admin")
    [] s = "{\"username\":\"ed\",\"role\":\"editor\"}"   -> JObject("ed", "editor")
    [] s = "{\"username\":\"vic\",\"role\":\"viewer\"}"  -> JObject("vic", "viewer")
    [] s = "null"                                        -> JNull
    [] s = "5"                                           -> JNumber
    [] OTHER                                             -> JThrow

\* what may sit under 'user' when the page loads
StoredUsers == { "", "{bad", "null", "5",
                 "{\"username\":\"alice\",\"role\":\"admin\"}",
                 "{\"username\":\"vic\",\"role\":\"viewer\"}" }

TokenName(i) == "T" \o ToString(i)
AllTokens == { TokenName(i) : i \in 0..(MaxLogins + 1) }
StoredTokens == { TokenName(0) }

-----------------------------------------------------------------------------
(* localStorage *)

\* getItem(k) is truthy: the key is present and its value is not ''
HasItem(ls, k) == k \in DOMAIN ls /\ ls[k] # ""

removeItem(ls, k) == [x \in DOMAIN ls \ {k} |-> ls[x]]

setItem(ls, k, v) == [x \in DOMAIN ls \cup {k} |-> IF x = k THEN v ELSE ls[x]]

NoKeys == [x \in {} |-> ""]

\* every localStorage a page load can find
Storages ==
  { NoKeys } \cup
  { [x \in {"user"} |-> u] : u \in StoredUsers } \cup
  { [x \in {"token"} |-> t] : t \in StoredTokens } \cup
  { [x \in {"user", "token"} |-> IF x = "user" THEN ut[1] ELSE ut[2]] :
      ut \in StoredUsers \X StoredTokens }

-----------------------------------------------------------------------------
(* api.js *)

Bearer(token) == "Bearer " \o token

setTokenKeepsOnNull(hdrs, token) ==
  IF token # "" THEN [x \in DOMAIN hdrs \cup {"Authorization"} |-> Bearer(token)] ELSE hdrs

\* setToken(token): token is a string, or "" standing for null
setToken(hdrs, token) ==
  [x \in DOMAIN hdrs \cup {"Authorization"} |-> IF token # "" THEN Bearer(token) ELSE ""]

\* the request carries a bearer Authorization header
HasBearer(hdrs) ==
  "Authorization" \in DOMAIN hdrs /\ hdrs["Authorization"] \in { Bearer(t) : t \in AllTokens }

BearerTokens(hdrs) ==
  IF "Authorization" \in DOMAIN hdrs
  THEN { t \in AllTokens : hdrs["Authorization"] = Bearer(t) }
  ELSE {}

-----------------------------------------------------------------------------
(* Typed text: a sequence of characters *)

Chars == {" ", "a"}

RECURSIVE TrimStart(_)
TrimStart(s) == IF s # <<>> /\ Head(s) = " " THEN TrimStart(Tail(s)) ELSE s

RECURSIVE TrimEnd(_)
TrimEnd(s) ==
  IF s # <<>> /\ s[Len(s)] = " " THEN TrimEnd(SubSeq(s, 1, Len(s) - 1)) ELSE s

\* String.prototype.trim
Trim(s) == TrimEnd(TrimStart(s))

\* !s.trim()
Blank(s) == Trim(s) = <<>>

Texts == UNION { [1..n -> Chars] : n \in 0..MaxLen }

\* what the session specification types into a field
Typed == { <<"a">> }

-----------------------------------------------------------------------------
(* Initial component states (the useState arguments) *)

AppInit == [user |-> JNull, loading |-> TRUE]

LoginInit == [error |-> "", loading |-> FALSE]

DashInit ==
  [orgs |-> <<>>, loading |-> TRUE, error |-> "",
   showCreateOrgModal |-> FALSE, showCreateUserModal |-> FALSE,
   showUserManagementModal |-> FALSE, selectedOrgId |-> ""]

OrgModalInit == [orgId |-> <<>>, orgName |-> <<>>, error |-> "", loading |-> FALSE]

UserModalInit ==
  [username |-> <<>>, password |-> <<>>, role |-> "viewer", error |-> "", loading |-> FALSE]

JString(s) == [t |-> "string", s |-> s]
JArray(items) == [t |-> "array", items |-> items]

MgmtModalInit ==
  [users |-> <<>>, loading |-> TRUE, error |-> JString(""), deleting |-> ""]

-----------------------------------------------------------------------------
(* What the backend answers *)

Orgs == {"acme"}
OrgLists == { <<>>, <<"acme">> }
\* the body of GET /orgs: data.orgs may be missing
OrgsBodies == { [has |-> TRUE, orgs |-> l] : l \in OrgLists } \cup { [has |-> FALSE, orgs |-> <<>>] }

UserNames == {"bob", "eve"}
UserLists == { <<>>, <<"bob">>, <<"bob", "eve">> }
\* the body of GET /orgs/{org_id}/users: data.users may be missing
UsersBodies == { [has |-> TRUE, users |-> l] : l \in UserLists } \cup { [has |-> FALSE, users |-> <<>>] }

\* err.response?.data?.detail of a rejected request: none (a network error, or a
\* body without detail), a message, or a non-empty array of {msg} (a 422)
Msgs == {"field required"}
Details ==
  { [k |-> "none", s |-> "", msgs |-> <<>>], [k |-> "string", s |-> "denied", msgs |-> <<>>] } \cup
  { [k |-> "array", s |-> "", msgs |-> m] : m \in UNION { [1..n -> Msgs] : n \in 1..MaxMsgs } }

\* errorData.detail.map(e => e.msg).join(', ')
RECURSIVE Join(_)
Join(msgs) ==
  IF msgs = <<>> THEN ""
  ELSE IF Len(msgs) = 1 THEN msgs[1]
  ELSE msgs[1] \o ", " \o Join(Tail(msgs))

-----------------------------------------------------------------------------
(* Requests *)

\* a pending request and the closure of the handler awaiting it: dash and modal
\* say whether the Dashboard and the modal instance that sent it are still mounted
Pending(kind, org, name, users) ==
  [kind |-> kind, dash |-> TRUE, modal |-> TRUE, org |-> org, name |-> name, users |-> users]

\* a request as sent: axios merges the default headers when the call is made
Sent(kind, hdrs, user, org, role) ==
  [kind |-> kind, hdrs |-> hdrs, user |-> user, org |-> org, role |-> role]

Room == BagCardinality(inflight) < MaxInflight

Add(reqs, r) == reqs (+) SetToBag({r})
Settle(reqs, r) == reqs (-) SetToBag({r})

RECURSIVE Count(_, _)
Count(reqs, rs) ==
  IF rs = {} THEN 0
  ELSE LET r == CHOOSE x \in rs : TRUE IN reqs[r] + Count(reqs, rs \ {r})

\* the component instances that sent a request are gone
GoneAll(r) == [r EXCEPT !.dash = FALSE, !.modal = FALSE]

\* the modal instance that sent a request is gone, the Dashboard stays
GoneModal(r) ==
  IF r.kind \in {"createOrg", "createUser", "listUsers", "deleteUser"}
  THEN [r EXCEPT !.modal = FALSE] ELSE r

Unmounted(reqs) ==
  [y \in { GoneAll(r) : r \in DOMAIN reqs } |->
     Count(reqs, { r \in DOMAIN reqs : GoneAll(r) = y })]

ModalsUnmounted(reqs) ==
  [y \in { GoneModal(r) : r \in DOMAIN reqs } |->
     Count(reqs, { r \in DOMAIN reqs : GoneModal(r) = y })]

-----------------------------------------------------------------------------
(* The session: App.jsx *)

Session(ls, hdrs, user) == [ls |-> ls, hdrs |-> hdrs, user |-> user]

\* the session as it stands
Current == Session(localStorage, axiosCommon, app.user)

\* App's mount effect, from the in-memory user null
restore(s) ==
  IF HasItem(s.ls, "user") /\ HasItem(s.ls, "token")
  THEN LET parsedUser == JSONparse(s.ls["user"]) IN
       IF parsedUser = JThrow
       THEN Session(removeItem(removeItem(s.ls, "user"), "token"), s.hdrs, JNull)
       ELSE Session(s.ls, setToken(s.hdrs, s.ls["token"]), parsedUser)
  ELSE Session(s.ls, s.hdrs, JNull)

\* App.handleLoginSuccess; a JSON.parse that throws leaves the state as it was
handleLoginSuccess(s) ==
  IF HasItem(s.ls, "user") /\ HasItem(s.ls, "token")
  THEN LET user == JSONparse(s.ls["user"]) IN
       IF user = JThrow THEN s
       ELSE Session(s.ls, setToken(s.hdrs, s.ls["token"]), user)
  ELSE s

\* App.handleLogout
AppHandleLogout(s) ==
  Session(removeItem(removeItem(s.ls, "user"), "token"), setToken(s.hdrs, ""), JNull)

handleLogoutMemoryOnly(s) == Session(s.ls, s.hdrs, JNull)

\* Navigation.handleLogout, which calls onLogout = App.handleLogout
handleLogout(s) ==
  AppHandleLogout(
    Session(removeItem(removeItem(s.ls, "user"), "token"), setToken(s.hdrs, ""), s.user))

\* Login's continuation of a successful POST /token: it stores the answer
storeLogin(s, token, user) ==
  Session(setItem(setItem(s.ls, "token", token), "user", JSONstringify(user)), s.hdrs, s.user)

\* what is mounted
AppReady == ~app.loading
DashMounted == AppReady /\ Truthy(app.user)
LoginMounted == AppReady /\ ~Truthy(app.user)
\* Dashboard renders its cards and its modals only when it is not loading
DashShown == DashMounted /\ ~dash.loading

isAdminOrEditor(user) == RoleOf(user) \in {"admin", "editor"}

isAdmin(user) == RoleOf(user) = "admin"
isNotAdmin(user) == RoleOf(user) # "admin"

isEditor(user) == RoleOf(user) = "editor"

-----------------------------------------------------------------------------
(* Steps of the session *)

\* Dashboard's mount effect: fetchOrgs() sends GET /orgs
MountDashboard(s, reqs) ==
  /\ dash' = DashInit
  /\ inflight' = Add(reqs, Pending("listOrgs", "", "", <<>>))
  /\ issued' = {Sent("listOrgs", s.hdrs, s.user, "", "")}

\* the session s is what App now holds; the view under it is mounted afresh
Remount(s, reqs) ==
  /\ localStorage' = s.ls
  /\ axiosCommon' = s.hdrs
  /\ app' = [user |-> s.user, loading |-> FALSE]
  /\ loginView' = LoginInit
  /\ orgModal' = OrgModalInit
  /\ userModal' = UserModalInit
  /\ mgmtModal' = MgmtModalInit
  /\ IF Truthy(s.user)
     THEN MountDashboard(s, reqs)
     ELSE dash' = DashInit /\ inflight' = reqs /\ issued' = {}

\* App's mount effect
Restore ==
  /\ app.loading
  /\ Remount(restore(Current), inflight)
  /\ lastStep' = "Restore"
  /\ UNCHANGED <<nextTok, cleared>>

\* the page is loaded again: memory is lost, localStorage stays
Reload ==
  /\ AppReady
  /\ app' = AppInit
  /\ axiosCommon' = NoKeys
  /\ loginView' = LoginInit
  /\ dash' = DashInit
  /\ orgModal' = OrgModalInit
  /\ userModal' = UserModalInit
  /\ mgmtModal' = MgmtModalInit
  /\ inflight' = EmptyBag
  /\ issued' = {}
  /\ lastStep' = "Reload"
  /\ UNCHANGED <<localStorage, nextTok, cleared>>

\* the Logout button of Navigation
Logout ==
  /\ DashMounted
  /\ Remount(handleLogout(Current), Unmounted(inflight))
  /\ cleared' = cleared \cup BearerTokens(axiosCommon)
                      \cup (IF HasItem(localStorage, "token") THEN {localStorage["token"]} ELSE {})
  /\ lastStep' = "Logout"
  /\ UNCHANGED nextTok

\* Login's submit: login(username, password) sends POST /token
LoginSubmit ==
  /\ LoginMounted
  /\ ~loginView.loading
  /\ Room
  /\ loginView' = [error |-> "", loading |-> TRUE]
  /\ inflight' = Add(inflight, Pending("login", "", "", <<>>))
  /\ issued' = {Sent("login", axiosCommon, app.user, "", "")}
  /\ lastStep' = "LoginSubmit"
  /\ UNCHANGED <<localStorage, axiosCommon, app, dash, orgModal, userModal, mgmtModal,
                 nextTok, cleared>>

\* POST /token answers {token, user}: Login stores both and calls onLoginSuccess
LoginOk(r, user) ==
  /\ BagIn(r, inflight) /\ r.kind = "login"
  /\ nextTok <= MaxLogins
  /\ Remount(handleLoginSuccess(storeLogin(Current, TokenName(nextTok), user)),
             Settle(inflight, r))
  /\ nextTok' = nextTok + 1
  /\ lastStep' = "LoginOk"
  /\ UNCHANGED cleared

\* POST /token is rejected: Login shows the error
LoginFail(r, d) ==
  /\ BagIn(r, inflight) /\ r.kind = "login"
  /\ loginView' = [error |-> IF d.k = "string" THEN d.s ELSE "Login failed", loading |-> FALSE]
  /\ inflight' = Settle(inflight, r)
  /\ issued' = {}
  /\ lastStep' = "LoginFail"
  /\ UNCHANGED <<localStorage, axiosCommon, app, dash, orgModal, userModal, mgmtModal,
                 nextTok, cleared>>

-----------------------------------------------------------------------------
(* Dashboard.jsx *)

SessionKept == UNCHANGED <<localStorage, axiosCommon, app, loginView, nextTok, cleared>>

\* fetchOrgs() called by a handler of the mounted Dashboard: setLoading(true) takes
\* the modals off the page, and GET /orgs is sent
LiveFetch(newDash, reqs) ==
  /\ dash' = [newDash EXCEPT !.loading = TRUE]
  /\ orgModal' = OrgModalInit
  /\ userModal' = UserModalInit
  /\ mgmtModal' = MgmtModalInit
  /\ inflight' = Add(ModalsUnmounted(reqs), Pending("listOrgs", "", "", <<>>))
  /\ issued' = {Sent("listOrgs", axiosCommon, app.user, "", "")}

\* fetchOrgs() called by a handler of a Dashboard that is no longer mounted: its
\* setState calls do nothing, GET /orgs is sent all the same
StaleFetch(reqs) ==
  /\ inflight' = Add(reqs, GoneAll(Pending("listOrgs", "", "", <<>>)))
  /\ issued' = {Sent("listOrgs", axiosCommon, app.user, "", "")}
  /\ UNCHANGED <<dash, orgModal, userModal, mgmtModal>>

\* UserManagementModal's effect on [isOpen, orgId]: it runs fetchUsers() when either
\* changed (or the modal was just mounted) and isOpen && orgId
EffectFires(wasShown, old, new) ==
  /\ new.showUserManagementModal /\ new.selectedOrgId # ""
  /\ \/ ~wasShown
     \/ old.showUserManagementModal # new.showUserManagementModal
     \/ old.selectedOrgId # new.selectedOrgId

\* fetchUsers(): setLoading(true), setError(''), GET /orgs/{orgId}/users
FetchUsers(new, reqs) ==
  /\ mgmtModal' = [mgmtModal EXCEPT !.loading = TRUE, !.error = JString("")]
  /\ inflight' = Add(reqs, Pending("listUsers", new.selectedOrgId, "", <<>>))
  /\ issued' = {Sent("listUsers", axiosCommon, app.user, new.selectedOrgId, "")}

\* the shown Dashboard is rendered again with the state new
Rerender(new, reqs) ==
  /\ dash' = new
  /\ IF EffectFires(DashShown, dash, new)
     THEN FetchUsers(new, reqs)
     ELSE mgmtModal' = mgmtModal /\ inflight' = reqs /\ issued' = {}

\* a click on the Dashboard that only sets Dashboard state
Click(new) ==
  /\ EffectFires(TRUE, dash, new) => Room
  /\ Rerender(new, inflight)
  /\ UNCHANGED <<orgModal, userModal>>
  /\ SessionKept

\* GET /orgs settles for the mounted Dashboard
SettleListOrgs(r, new) ==
  IF r.dash
  THEN Rerender(new, Settle(inflight, r)) /\ UNCHANGED <<orgModal, userModal>>
  ELSE /\ inflight' = Settle(inflight, r)
       /\ issued' = {}
       /\ UNCHANGED <<dash, orgModal, userModal, mgmtModal>>

ListOrgsOk(r, body) ==
  /\ BagIn(r, inflight) /\ r.kind = "listOrgs"
  /\ SettleListOrgs(r, [dash EXCEPT !.orgs = IF body.has THEN body.orgs ELSE <<>>,
                                    !.loading = FALSE])
  /\ lastStep' = "ListOrgsOk"
  /\ SessionKept

ListOrgsFail(r) ==
  /\ BagIn(r, inflight) /\ r.kind = "listOrgs"
  /\ SettleListOrgs(r, [dash EXCEPT !.error = "Failed to load organizations",
                                    !.loading = FALSE])
  /\ lastStep' = "ListOrgsFail"
  /\ SessionKept

InList(x, l) == \E i \in 1..Len(l) : l[i] = x

\* the + Create Organization button, rendered for isAdmin
ClickCreateOrg ==
  /\ DashShown
  /\ isAdmin(app.user)
  /\ Click([dash EXCEPT !.showCreateOrgModal = TRUE])
  /\ lastStep' = "ClickCreateOrg"

\* the + User button of an organization, rendered for isAdmin || isEditor
handleCreateUserClick(orgId) ==
  /\ DashShown
  /\ isAdmin(app.user) \/ isEditor(app.user)
  /\ InList(orgId, dash.orgs)
  /\ Click([dash EXCEPT !.selectedOrgId = orgId, !.showCreateUserModal = TRUE])
  /\ lastStep' = "handleCreateUserClick"

\* the Users button of an organization, rendered for isAdmin || isEditor
handleUserManagementClick(orgId) ==
  /\ DashShown
  /\ isAdmin(app.user) \/ isEditor(app.user)
  /\ InList(orgId, dash.orgs)
  /\ Click([dash EXCEPT !.selectedOrgId = orgId, !.showUserManagementModal = TRUE])
  /\ lastStep' = "handleUserManagementClick"

\* onClose of the three modals
CloseCreateOrg ==
  /\ DashShown /\ dash.showCreateOrgModal
  /\ Click([dash EXCEPT !.showCreateOrgModal = FALSE])
  /\ lastStep' = "CloseCreateOrg"

CloseCreateUser ==
  /\ DashShown /\ dash.showCreateUserModal
  /\ Click([dash EXCEPT !.showCreateUserModal = FALSE])
  /\ lastStep' = "CloseCreateUser"

CloseUserManagement ==
  /\ DashShown /\ dash.showUserManagementModal
  /\ Click([dash EXCEPT !.showUserManagementModal = FALSE])
  /\ lastStep' = "CloseUserManagement"

-----------------------------------------------------------------------------
(* The settling of a request sent by a modal *)

\* the error the create forms show for a rejected request
FormError(d, fallback) ==
  IF d.k = "array" THEN Join(d.msgs)
  ELSE IF d.k = "string" /\ d.s # "" THEN d.s
  ELSE fallback

\* err.response?.data?.detail || fallback, as UserManagementModal stores it
DetailOr(d, fallback) ==
  IF d.k = "array" THEN JArray(d.msgs)
  ELSE IF d.k = "string" /\ d.s # "" THEN JString(d.s)
  ELSE JString(fallback)

\* onSuccess / onUserDeleted: the Dashboard's handler runs fetchOrgs() and sets flags
AfterSuccess(r, new) ==
  IF r.dash THEN LiveFetch(new, Settle(inflight, r)) ELSE StaleFetch(Settle(inflight, r))

\* a rejected request of a modal: the catch block sets the error of the modal that
\* sent it, if it is still mounted, and nothing else
AfterFailureClearsToken(r) ==
  /\ inflight' = Settle(inflight, r)
  /\ issued' = {}
  /\ localStorage' = removeItem(localStorage, "token")
  /\ axiosCommon' = setToken(axiosCommon, "")
  /\ UNCHANGED <<dash, app, loginView, nextTok, cleared>>

AfterFailure(r) ==
  /\ inflight' = Settle(inflight, r)
  /\ issued' = {}
  /\ UNCHANGED dash
  /\ SessionKept

-----------------------------------------------------------------------------
(* CreateOrgModal *)

OrgFormShown == DashShown /\ dash.showCreateOrgModal

setOrgId(v) ==
  /\ OrgFormShown /\ ~orgModal.loading
  /\ orgModal' = [orgModal EXCEPT !.orgId = v]
  /\ issued' = {}
  /\ lastStep' = "setOrgId"
  /\ UNCHANGED <<dash, userModal, mgmtModal, inflight>>
  /\ SessionKept

setOrgName(v) ==
  /\ OrgFormShown /\ ~orgModal.loading
  /\ orgModal' = [orgModal EXCEPT !.orgName = v]
  /\ issued' = {}
  /\ lastStep' = "setOrgName"
  /\ UNCHANGED <<dash, userModal, mgmtModal, inflight>>
  /\ SessionKept

OrgFormEmpty(m) == m.orgId = <<>> \/ m.orgName = <<>>

\* the client-side check of CreateOrgModal.handleSubmit
OrgFormBlank(m) == Blank(m.orgId) \/ Blank(m.orgName)

\* handleSubmit: rejected on the client, or POST /admin/orgs is sent
CreateOrgSubmit ==
  /\ OrgFormShown /\ ~orgModal.loading
  /\ IF OrgFormBlank(orgModal)
     THEN /\ orgModal' = [orgModal EXCEPT !.error = "Organization ID and Name are required",
                                          !.loading = FALSE]
          /\ inflight' = inflight
          /\ issued' = {}
          /\ lastStep' = "CreateOrgRejected"
     ELSE /\ Room
          /\ orgModal' = [orgModal EXCEPT !.error = "", !.loading = TRUE]
          /\ inflight' = Add(inflight,
                            Pending("createOrg", orgModal.orgId, orgModal.orgName, <<>>))
          /\ issued' = {Sent("createOrg", axiosCommon, app.user, orgModal.orgId, "")}
          /\ lastStep' = "CreateOrgSubmit"
  /\ UNCHANGED <<dash, userModal, mgmtModal>>
  /\ SessionKept

\* POST /admin/orgs succeeded: onSuccess(), the fields are emptied, onClose()
CreateOrgOk(r) ==
  /\ BagIn(r, inflight) /\ r.kind = "createOrg"
  /\ AfterSuccess(r, [dash EXCEPT !.showCreateOrgModal = FALSE])
  /\ lastStep' = "CreateOrgOk"
  /\ SessionKept

CreateOrgFail(r, d) ==
  /\ BagIn(r, inflight) /\ r.kind = "createOrg"
  /\ AfterFailure(r)
  /\ orgModal' = IF r.modal
                 THEN [orgModal EXCEPT !.error = FormError(d, "Failed to create organization"),
                                       !.loading = FALSE]
                 ELSE orgModal
  /\ lastStep' = "CreateOrgFail"
  /\ UNCHANGED <<userModal, mgmtModal>>

-----------------------------------------------------------------------------
(* CreateUserModal *)

UserFormShown == DashShown /\ dash.showCreateUserModal

getAvailableRolesAll(currentUserRole) == <<"viewer", "editor", "admin">>

\* the values of the options getAvailableRoles() returns
getAvailableRoles(currentUserRole) ==
  IF currentUserRole = "admin" THEN <<"viewer", "editor", "admin">>
  ELSE IF currentUserRole = "editor" THEN <<"viewer", "editor">>
  ELSE <<"viewer">>

setUsername(v) ==
  /\ UserFormShown /\ ~userModal.loading
  /\ userModal' = [userModal EXCEPT !.username = v]
  /\ issued' = {}
  /\ lastStep' = "setUsername"
  /\ UNCHANGED <<dash, orgModal, mgmtModal, inflight>>
  /\ SessionKept

setPassword(v) ==
  /\ UserFormShown /\ ~userModal.loading
  /\ userModal' = [userModal EXCEPT !.password = v]
  /\ issued' = {}
  /\ lastStep' = "setPassword"
  /\ UNCHANGED <<dash, orgModal, mgmtModal, inflight>>
  /\ SessionKept

\* the role select offers the options of getAvailableRoles(currentUserRole)
setRole(v) ==
  /\ UserFormShown /\ ~userModal.loading
  /\ InList(v, getAvailableRoles(RoleOf(app.user)))
  /\ userModal' = [userModal EXCEPT !.role = v]
  /\ issued' = {}
  /\ lastStep' = "setRole"
  /\ UNCHANGED <<dash, orgModal, mgmtModal, inflight>>
  /\ SessionKept

\* handleSubmit: rejected on the client, or POST /orgs/{orgId}/users is sent
CreateUserSubmit ==
  /\ UserFormShown /\ ~userModal.loading
  /\ IF Blank(userModal.username) \/ Blank(userModal.password)
     THEN /\ userModal' = [userModal EXCEPT !.error = "Username and Password are required",
                                            !.loading = FALSE]
          /\ inflight' = inflight
          /\ issued' = {}
          /\ lastStep' = "CreateUserRejected"
     ELSE /\ Room
          /\ userModal' = [userModal EXCEPT !.error = "", !.loading = TRUE]
          /\ inflight' = Add(inflight,
                            Pending("createUser", dash.selectedOrgId, userModal.username, <<>>))
          /\ issued' = {Sent("createUser", axiosCommon, app.user, dash.selectedOrgId, userModal.role)}
          /\ lastStep' = "CreateUserSubmit"
  /\ UNCHANGED <<dash, orgModal, mgmtModal>>
  /\ SessionKept

\* POST /orgs/{orgId}/users succeeded: onSuccess(), the fields are reset, onClose()
CreateUserOk(r) ==
  /\ BagIn(r, inflight) /\ r.kind = "createUser"
  /\ AfterSuccess(r, [dash EXCEPT !.showCreateUserModal = FALSE])
  /\ lastStep' = "CreateUserOk"
  /\ SessionKept

CreateUserFail(r, d) ==
  /\ BagIn(r, inflight) /\ r.kind = "createUser"
  /\ AfterFailure(r)
  /\ userModal' = IF r.modal
                  THEN [userModal EXCEPT !.error = FormError(d, "Failed to create user"),
                                         !.loading = FALSE]
                  ELSE userModal
  /\ lastStep' = "CreateUserFail"
  /\ UNCHANGED <<orgModal, mgmtModal>>

-----------------------------------------------------------------------------
(* UserManagementModal *)

MgmtShown == DashShown /\ dash.showUserManagementModal

ListUsersOk(r, body) ==
  /\ BagIn(r, inflight) /\ r.kind = "listUsers"
  /\ AfterFailure(r)
  /\ mgmtModal' = IF r.modal
                  THEN [mgmtModal EXCEPT !.users = IF body.has THEN body.users ELSE <<>>,
                                         !.loading = FALSE]
                  ELSE mgmtModal
  /\ lastStep' = "ListUsersOk"
  /\ UNCHANGED <<orgModal, userModal>>

ListUsersFail(r, d) ==
  /\ BagIn(r, inflight) /\ r.kind = "listUsers"
  /\ AfterFailure(r)
  /\ mgmtModal' = IF r.modal
                  THEN [mgmtModal EXCEPT !.error = DetailOr(d, "Failed to load users"),
                                         !.loading = FALSE]
                  ELSE mgmtModal
  /\ lastStep' = "ListUsersFail"
  /\ UNCHANGED <<orgModal, userModal>>

\* the Delete button of a row; confirmed is window.confirm's answer
handleDeleteUser(username, confirmed) ==
  /\ MgmtShown /\ ~mgmtModal.loading
  /\ InList(username, mgmtModal.users)
  /\ mgmtModal.deleting # username
  /\ IF confirmed
     THEN /\ Room
          /\ mgmtModal' = [mgmtModal EXCEPT !.deleting = username]
          /\ inflight' = Add(inflight,
                            Pending("deleteUser", dash.selectedOrgId, username, mgmtModal.users))
          /\ issued' = {Sent("deleteUser", axiosCommon, app.user, dash.selectedOrgId, "")}
          /\ lastStep' = "handleDeleteUser"
     ELSE /\ UNCHANGED <<mgmtModal, inflight>>
          /\ issued' = {}
          /\ lastStep' = "DeleteDeclined"
  /\ UNCHANGED <<dash, orgModal, userModal>>
  /\ SessionKept

\* users.filter(u => u.username !== username)
RECURSIVE Without(_, _)
Without(users, username) ==
  IF users = <<>> THEN <<>>
  ELSE IF Head(users) = username THEN Without(Tail(users), username)
  ELSE <<Head(users)>> \o Without(Tail(users), username)

\* DELETE succeeded: setUsers(users.filter(...)) with the users of the render that
\* made the click, then onUserDeleted() = fetchOrgs(), then setDeleting(null)
DeleteUserOk(r) ==
  /\ BagIn(r, inflight) /\ r.kind = "deleteUser"
  /\ AfterSuccess(r, dash)
  /\ lastStep' = "DeleteUserOk"
  /\ SessionKept

DeleteUserFail(r, d) ==
  /\ BagIn(r, inflight) /\ r.kind = "deleteUser"
  /\ AfterFailure(r)
  /\ mgmtModal' = IF r.modal
                  THEN [mgmtModal EXCEPT !.error = DetailOr(d, "Failed to delete user"),
                                         !.deleting = ""]
                  ELSE mgmtModal
  /\ lastStep' = "DeleteUserFail"
  /\ UNCHANGED <<orgModal, userModal>>

-----------------------------------------------------------------------------
(* The application *)

Init ==
  /\ localStorage \in Storages
  /\ axiosCommon = NoKeys
  /\ app = AppInit
  /\ loginView = LoginInit
  /\ dash = DashInit
  /\ orgModal = OrgModalInit
  /\ userModal = UserModalInit
  /\ mgmtModal = MgmtModalInit
  /\ inflight = EmptyBag
  /\ issued = {}
  /\ lastStep = "Init"
  /\ nextTok = 1
  /\ cleared = {}

\* The specifications follow one modal at a time: a modal is opened only while the
\* other two are closed, in their initial state and awaiting nothing (every
\* fetchOrgs() and every logout puts all three back in that state)
OrgIdle ==
  /\ ~dash.showCreateOrgModal /\ orgModal = OrgModalInit
  /\ \A r \in BagToSet(inflight) : r.kind = "createOrg" => ~r.modal
UserIdle ==
  /\ ~dash.showCreateUserModal /\ userModal = UserModalInit
  /\ \A r \in BagToSet(inflight) : r.kind = "createUser" => ~r.modal
MgmtIdle ==
  /\ ~dash.showUserManagementModal /\ mgmtModal = MgmtModalInit
  /\ \A r \in BagToSet(inflight) : r.kind \in {"listUsers", "deleteUser"} => ~r.modal

SessionNext ==
  \/ Restore
  \/ Reload
  \/ Logout
  \/ LoginSubmit
  \/ \E r \in BagToSet(inflight), u \in Users : LoginOk(r, u)
  \/ \E r \in BagToSet(inflight), d \in Details : LoginFail(r, d)
  \/ \E r \in BagToSet(inflight), b \in OrgsBodies : ListOrgsOk(r, b)
  \/ \E r \in BagToSet(inflight) : ListOrgsFail(r)

OrgNext(texts) ==
  \/ UserIdle /\ MgmtIdle /\ ClickCreateOrg
  \/ CloseCreateOrg
  \/ \E v \in texts : setOrgId(v)
  \/ \E v \in texts : setOrgName(v)
  \/ CreateOrgSubmit
  \/ \E r \in BagToSet(inflight) : CreateOrgOk(r)
  \/ \E r \in BagToSet(inflight), d \in Details : CreateOrgFail(r, d)

UserNext(texts) ==
  \/ OrgIdle /\ MgmtIdle /\ \E o \in Orgs : handleCreateUserClick(o)
  \/ CloseCreateUser
  \/ \E v \in texts : setUsername(v)
  \/ \E v \in texts : setPassword(v)
  \/ \E v \in Roles : setRole(v)
  \/ CreateUserSubmit
  \/ \E r \in BagToSet(inflight) : CreateUserOk(r)
  \/ \E r \in BagToSet(inflight), d \in Details : CreateUserFail(r, d)

MgmtNext(bodies) ==
  \/ OrgIdle /\ UserIdle /\ \E o \in Orgs : handleUserManagementClick(o)
  \/ CloseUserManagement
  \/ \E r \in BagToSet(inflight), b \in bodies : ListUsersOk(r, b)
  \/ \E r \in BagToSet(inflight), d \in Details : ListUsersFail(r, d)
  \/ \E u \in UserNames, c \in BOOLEAN : handleDeleteUser(u, c)
  \/ \E r \in BagToSet(inflight) : DeleteUserOk(r)
  \/ \E r \in BagToSet(inflight), d \in Details : DeleteUserFail(r, d)

\* what the session specification gets for a list of users
Listed == { [has |-> TRUE, users |-> <<"bob">>], [has |-> FALSE, users |-> <<>>] }

Next == SessionNext \/ OrgNext(Typed) \/ UserNext(Typed) \/ MgmtNext(Listed)

Spec == Init /\ [][Next]_vars

-----------------------------------------------------------------------------
(* The create-organization form on its own: an admin session, every text of up
   to MaxLen characters typed into the two fields *)

InitOrgForm ==
  /\ Init
  /\ localStorage = [x \in {"user", "token"} |->
                       IF x = "user" THEN JSONstringify(JObject("alice", "admin"))
                       ELSE TokenName(0)]

NextOrgForm ==
  \/ Restore
  \/ Logout
  \/ \E r \in BagToSet(inflight), b \in OrgsBodies : ListOrgsOk(r, b)
  \/ \E r \in BagToSet(inflight) : ListOrgsFail(r)
  \/ OrgNext(Texts)

SpecOrgForm == InitOrgForm /\ [][NextOrgForm]_vars

-----------------------------------------------------------------------------
(* The user-management view on its own: an admin session, two organizations,
   each with its own users; the Users button of an organization is clicked
   while the view is closed *)

MgmtOrgs == {"acme", "beta"}
MgmtOrgsBodies == { [has |-> TRUE, orgs |-> <<"acme", "beta">>] }

\* what GET /orgs/{org_id}/users may answer for an organization
UsersOf(org) ==
  IF org = "acme" THEN { <<"bob", "eve">>, <<"eve">> }
  ELSE IF org = "beta" THEN { <<"zed">> }
  ELSE {}
MgmtUserNames == {"bob", "eve", "zed"}

InitMgmt == InitOrgForm

NextMgmt ==
  \/ Restore
  \/ Logout
  \/ \E r \in BagToSet(inflight), b \in MgmtOrgsBodies : ListOrgsOk(r, b)
  \/ \E r \in BagToSet(inflight) : ListOrgsFail(r)
  \/ ~dash.showUserManagementModal /\ \E o \in MgmtOrgs : handleUserManagementClick(o)
  \/ CloseUserManagement
  \/ \E r \in BagToSet(inflight) : \E l \in UsersOf(r.org) :
        ListUsersOk(r, [has |-> TRUE, users |-> l])
  \/ \E r \in BagToSet(inflight), d \in Details : ListUsersFail(r, d)
  \/ \E u \in MgmtUserNames, c \in BOOLEAN : handleDeleteUser(u, c)
  \/ \E r \in BagToSet(inflight) : DeleteUserOk(r)
  \/ \E r \in BagToSet(inflight), d \in Details : DeleteUserFail(r, d)

SpecMgmt == InitMgmt /\ [][NextMgmt]_vars

-----------------------------------------------------------------------------
(* Claims *)

Range(l) == { l[i] : i \in 1..Len(l) }

\* a persisted payload that is there but is not a session: a key is missing or
\* empty, or 'user' does not parse, or parses to something that is no object
Malformed(ls) ==
  /\ ls # NoKeys
  /\ ~(/\ HasItem(ls, "user") /\ HasItem(ls, "token")
       /\ JSONparse(ls["user"]).t = "object")

\* C1: the mount effect, run on a malformed or partial persisted payload, ends
\* logged out (user null), with 'user' and 'token' both removed from localStorage
\* and loading false.
C1_RestoreClearsMalformed ==
  [][(app.loading /\ lastStep' = "Restore" /\ Malformed(localStorage))
       => (/\ app'.user = JNull
           /\ ~app'.loading
           /\ "user" \notin DOMAIN localStorage'
           /\ "token" \notin DOMAIN localStorage')]_vars

\* C2: in a session whose role is not admin the create-organization modal is never
\* open, and every POST /admin/orgs is sent by an admin session.
C2_CreateOrgAdminOnly ==
  /\ RoleOf(app.user) # "admin" => ~dash.showCreateOrgModal
  /\ \A q \in issued : q.kind = "createOrg" => RoleOf(q.user) = "admin"

\* a non-admin session runs while a createOrg of an earlier admin session is pending
C2_Witness ==
  /\ DashShown /\ RoleOf(app.user) \in {"editor", "viewer", Undefined}
  /\ \E r \in BagToSet(inflight) : r.kind = "createOrg"

\* C3: in a viewer session the create-user modal and the user-management modal are
\* never open, and no createUser and no deleteUser request is sent.
C3_ViewerNoUserAdmin ==
  /\ RoleOf(app.user) = "viewer"
       => ~dash.showCreateUserModal /\ ~dash.showUserManagementModal
  /\ \A q \in issued : q.kind \in {"createUser", "deleteUser"} => RoleOf(q.user) # "viewer"

\* a viewer looks at a list of organizations while a createUser or a deleteUser of
\* an earlier session is pending
C3_Witness ==
  /\ DashShown /\ RoleOf(app.user) = "viewer" /\ dash.orgs # <<>>
  /\ \E r \in BagToSet(inflight) : r.kind \in {"createUser", "deleteUser"}

\* the assignable roles of the data model
Assignable(role) ==
  IF role = "admin" THEN {"viewer", "editor", "admin"}
  ELSE IF role = "editor" THEN {"viewer", "editor"}
  ELSE {}

\* const availableRoles = getAvailableRoles(), computed whenever CreateUserModal renders
availableRoles == getAvailableRoles(RoleOf(app.user))

\* C4: whenever CreateUserModal renders for a session of role r, the roles it
\* computes are exactly admin -> {viewer, editor, admin}, editor -> {viewer, editor},
\* viewer -> {}.
C4_AvailableRolesExact ==
  (DashShown /\ RoleOf(app.user) \in Roles)
    => Range(availableRoles) = Assignable(RoleOf(app.user))

\* C5: every createUser request carries a role assignable by the role of the
\* session that sent it; an editor never sends role admin.
C5_RoleCeiling ==
  \A q \in issued : q.kind = "createUser" => q.role \in Assignable(RoleOf(q.user))

\* an editor creates an editor, after an earlier session was logged out
C5_Witness ==
  /\ cleared # {}
  /\ \E q \in issued : q.kind = "createUser" /\ RoleOf(q.user) = "editor" /\ q.role = "editor"

\* no user, no stored identity, no bearer default
LoggedOut(s) ==
  /\ s.user = JNull
  /\ "user" \notin DOMAIN s.ls
  /\ "token" \notin DOMAIN s.ls
  /\ ~HasBearer(s.hdrs)

\* C6: logout leaves user null, localStorage without 'user' and 'token' and no
\* bearer default; a second logout changes nothing; restore after logout is logged out.
C6_LogoutIdempotent ==
  /\ lastStep = "Logout" => LoggedOut(Current)
  /\ LoggedOut(handleLogout(Current))
  /\ handleLogout(handleLogout(Current)) = handleLogout(Current)
  /\ LoggedOut(restore(handleLogout(Current)))

\* a logout of a session that had a stored identity and a bearer default
C6_Witness ==
  /\ lastStep = "Logout"
  /\ cleared # {}
  /\ inflight # EmptyBag

\* C7: no request sent after a logout carries a token that a logout has cleared.
C7_LogoutObserved ==
  \A q \in issued : BearerTokens(q.hdrs) \cap cleared = {}

\* the continuation of a request of the logged-out session runs after the logout
\* and sends GET /orgs
C7_Witness ==
  /\ lastStep \in {"CreateOrgOk", "CreateUserOk", "DeleteUserOk"}
  /\ cleared # {}
  /\ \E q \in issued : q.kind = "listOrgs" /\ ~Truthy(q.user)

\* C8: a request sent while a session exists carries Bearer T, T the persisted
\* token; a request sent while no session exists carries no bearer header.
C8_BearerIffSession ==
  \A q \in issued :
    IF q.user # JNull
    THEN /\ HasItem(localStorage, "token")
         /\ "Authorization" \in DOMAIN q.hdrs
         /\ q.hdrs["Authorization"] = Bearer(localStorage["token"])
    ELSE ~HasBearer(q.hdrs)

\* a text of spaces only, the empty text included
AllSpaces(s) == \A i \in 1..Len(s) : s[i] = " "

\* the steps in which a request of the claim's five kinds is rejected
Rejections == {"LoginFail", "CreateOrgFail", "CreateUserFail", "ListUsersFail", "DeleteUserFail"}

C10_BlankOrgRejected ==
  [][(lastStep' \in {"CreateOrgSubmit", "CreateOrgRejected"}
       /\ (AllSpaces(orgModal.orgId) \/ AllSpaces(orgModal.orgName)))
       => /\ issued' = {}
          /\ inflight' = inflight
          /\ orgModal'.error = "Organization ID and Name are required"
          /\ orgModal'.orgId = orgModal.orgId
          /\ orgModal'.orgName = orgModal.orgName
          /\ ~orgModal'.loading
          /\ dash' = dash]_vars

\* a submit with an org_id of spaces only and a name was rejected
C10_Witness ==
  /\ lastStep = "CreateOrgRejected"
  /\ orgModal.orgId # <<>> /\ AllSpaces(orgModal.orgId)
  /\ ~AllSpaces(orgModal.orgName)
  /\ orgModal.error = "Organization ID and Name are required"

\* the request r is settled by the step
Settled(r) == CopiesIn(r, inflight') < CopiesIn(r, inflight)

\* C11: when a confirmed deleteUser(org, u) succeeds while the list is displayed,
\* the displayed user list becomes the list displayed just before minus exactly
\* the entry u; when the confirmation is declined or the request fails, the
\* displayed list is unchanged.
C11_DeleteRemovesExactly ==
  [][(lastStep' = "DeleteUserOk" /\ MgmtShown /\ ~mgmtModal.loading
        => \A r \in BagToSet(inflight) :
             (r.kind = "deleteUser" /\ Settled(r))
               => mgmtModal'.users = Without(mgmtModal.users, r.name))
     /\
     (lastStep' \in {"DeleteDeclined", "DeleteUserFail"}
        => mgmtModal'.users = mgmtModal.users)]_vars

\* the part of C11 about a declined confirmation and a failed request
C11_DeclinedOrFailedKeepsList ==
  [][lastStep' \in {"DeleteDeclined", "DeleteUserFail"}
       => mgmtModal'.users = mgmtModal.users]_vars

NoListUsersInFlight == \A r \in BagToSet(inflight) : r.kind # "listUsers"

\* C12: once no listUsers request is in flight, the users displayed in the
\* user-management view are a result of listUsers for the selected organization,
\* and every deleteUser sent from the view names a user of the organization it
\* is sent for.
C12_ListOfSelectedOrg ==
  /\ (MgmtShown /\ NoListUsersInFlight /\ mgmtModal.users # <<>>)
       => mgmtModal.users \in UsersOf(dash.selectedOrgId)
  /\ \A r \in BagToSet(inflight) :
       r.kind = "deleteUser" => \E l \in UsersOf(r.org) : InList(r.name, l)

\* no GET /orgs of the mounted Dashboard is pending after the step
NoFetchInFlight == \A r \in BagToSet(inflight') : ~(r.kind = "listOrgs" /\ r.dash)

\* C13: when a fetchOrgs of the mounted Dashboard completes with success and no
\* other fetch is in flight, loading is false and no "Failed to load
\* organizations" error is shown; when it completes with failure and no other
\* fetch is in flight, loading is false.
C13_LoadStatusIsLatestFetch ==
  [][\A r \in BagToSet(inflight) :
       (r.kind = "listOrgs" /\ r.dash /\ Settled(r) /\ NoFetchInFlight)
         => /\ lastStep' \in {"ListOrgsOk", "ListOrgsFail"} => ~dash'.loading
            /\ lastStep' = "ListOrgsOk" => dash'.error = ""]_vars

\* the part of C13 about loading
C13_LoadingFalseWhenIdle ==
  [][\A r \in BagToSet(inflight) :
       (r.kind = "listOrgs" /\ r.dash /\ Settled(r) /\ NoFetchInFlight)
         => (lastStep' \in {"ListOrgsOk", "ListOrgsFail"} => ~dash'.loading)]_vars

====
